---- MODULE Spec2Model ----
(***************************************************************************)
(* Model of MDAnalysis/coordinates/DCD.py: the DCD Timestep (unit-cell     *)
(* permutation), the DCDWriter and the DCDReader.  The compiled helpers    *)
(* of _dcdmodule (header, frame, seek and finish routines) are modelled    *)
(* from the format description; everything else is translated from the     *)
(* Python source.                                                          *)
(*                                                                         *)
(* Six specifications share the module:                                    *)
(*   SpecCell    the unit-cell transforms applied to bounded 6-vectors     *)
(*   SpecWriter  one DCDWriter object from construction to destruction     *)
(*   SpecReader  one DCDReader object from construction to destruction     *)
(*   SpecSlice   reader[x] with any index and two generators of slices     *)
(*   SpecSeries  DCDReader.timeseries                                      *)
(*   SpecLife    construction, close and destruction of a writer and a     *)
(*               reader                                                    *)
(***************************************************************************)
EXTENDS Integers, Sequences, FiniteSets

VARIABLES
    \* ---- Timestep / unit cell (SpecCell)
    c_pc,            \* "start" | "stored" | "read" | "set" | "setread" | "raw" |
                     \* "rawread" | "rawset"
    c_box,           \* the canonical vector (A, B, C, alpha, beta, gamma) of the caller
    c_unitcell,      \* Timestep._unitcell, the raw 6-vector
    c_dims,          \* last value returned by Timestep.dimensions (<<>> before any read)
    \* ---- DCDWriter (SpecWriter)
    w_pc,            \* "new" | "live" | "failed" | "deleted"
    w_dcdfile,       \* self.dcdfile: "unset" (attribute missing) | "open" | "None"
    w_numatoms,      \* self.numatoms: None before __init__ sets it, else Some(n)
    w_convert_units, \* self.convert_units
    w_step,          \* self.step
    w_delta,         \* self.delta
    w_frames_written,\* self.frames_written
    w_ts,            \* self.ts: None (attribute missing) or Some(atoms of the bound timestep)
    w_hdr,           \* the header on disk: NoHeader or [natoms, step, delta, nsets]
                     \* (delta in 1/100 AKMA time unit)
    w_log,           \* the low-level routines run on the open file, in order
    w_last,          \* the last call made on the writer and how it ended
    w_stale,         \* a low-level routine was invoked after the handle was released
    \* ---- DCDReader (SpecReader)
    r_pc,            \* "new" | "live" | "failed" | "deleted"
    r_file,          \* the file on disk: [zero |-> BOOLEAN, nsets |-> Nat]
    r_dcdfile,       \* self.dcdfile: "unset" | "None" | "open"
    r_numframes,     \* self.numframes
    r_skip,          \* self.skip
    r_cursor,        \* the low-level handle's position: index of the next frame
    r_ts,            \* self.ts, the single Frame buffer: NoTs or [frame, data]
    r_iters,         \* the generators returned by __iter__
    r_slices,        \* the generators returned by reader[start:stop:step]
    r_last,          \* the last call made on the reader and how it ended
    r_closes,        \* how many times the file object was closed
    r_stale          \* a low-level routine was invoked after the handle was released

cvars == <<c_pc, c_box, c_unitcell, c_dims>>
wvars == <<w_pc, w_dcdfile, w_numatoms, w_convert_units, w_step, w_delta,
           w_frames_written, w_ts, w_hdr, w_log, w_last, w_stale>>
rvars == <<r_pc, r_file, r_dcdfile, r_numframes, r_skip, r_cursor, r_ts,
           r_iters, r_slices, r_last, r_closes, r_stale>>
vars == <<cvars, wvars, rvars>>

(***************************************************************************)
(* Bounds of the model                                                     *)
(***************************************************************************)
MaxCellVal == 2
MaxAtoms == 2
MaxWrites == 2
MaxStep == 2
MaxDelta == 2
MaxDt == 2
MaxFrames == 3
MaxSkip == 2
MaxIters == 1

(***************************************************************************)
(* Timestep: the unit-cell permutation                                     *)
(***************************************************************************)
\* Timestep._ts_order (0-based indices into the raw vector)
_ts_order == <<0, 2, 5, 4, 3, 1>>

CellVals == 1..MaxCellVal
Boxes == [1..6 -> CellVals]
ZeroCell == [i \in 1..6 |-> 0]

\* numpy.take(a, order): element i of the result is a[order[i]]
Take(a, order) == [i \in 1..6 |-> a[order[i] + 1]]

\* numpy.put(a, order, v): a[order[i]] = v[i]
Put(a, order, v) ==
    [j \in 1..6 |-> IF \E i \in 1..6 : order[i] + 1 = j
                    THEN v[CHOOSE i \in 1..6 : order[i] + 1 = j]
                    ELSE a[j]]

\* Timestep.dimensions (getter)
dimensions(unitcell) == Take(unitcell, _ts_order)

\* the setter as it would be with take in place of put
set_dimensions_mut(unitcell, box) == Take(box, _ts_order)

\* Timestep.dimensions (setter): the new raw vector
set_dimensions(unitcell, box) == Put(unitcell, _ts_order, box)

\* base.Writer.convert_dimensions_to_unitcell: (A, B, C, alpha, beta, gamma)
\* with the lengths converted to the native length unit, which for DCD is the
\* base unit (Angstrom), so the values are unchanged
base_convert_dimensions_to_unitcell(dims) == dims

\* DCDWriter.convert_dimensions_to_unitcell
convert_dimensions_to_unitcell(dims) ==
    Take(base_convert_dimensions_to_unitcell(dims), _ts_order)

CInit ==
    /\ c_pc = "start"
    /\ c_box \in Boxes
    /\ c_unitcell = ZeroCell
    /\ c_dims = <<>>

\* The writer converts the caller's canonical vector; the result is stored
\* unchanged as the raw unit cell of the frame.
C_WriteCell ==
    /\ c_pc = "start"
    /\ c_unitcell' = convert_dimensions_to_unitcell(c_box)
    /\ c_pc' = "stored"
    /\ UNCHANGED <<c_box, c_dims>>

\* ts.dimensions = box
C_SetDimensions ==
    /\ c_pc = "start"
    /\ c_unitcell' = set_dimensions(c_unitcell, c_box)
    /\ c_pc' = "set"
    /\ UNCHANGED <<c_box, c_dims>>

\* A frame is read: the raw unit cell of the Timestep is the vector on disk
\* (here c_box, taken in the raw layout)
C_LoadRaw ==
    /\ c_pc = "start"
    /\ c_unitcell' = c_box
    /\ c_pc' = "raw"
    /\ UNCHANGED <<c_box, c_dims>>

\* ts.dimensions
C_GetDimensions ==
    /\ c_pc \in {"stored", "set", "raw"}
    /\ c_dims' = dimensions(c_unitcell)
    /\ c_pc' = IF c_pc = "stored" THEN "read"
               ELSE IF c_pc = "set" THEN "setread" ELSE "rawread"
    /\ UNCHANGED <<c_box, c_unitcell>>

\* ts.dimensions = ts.dimensions: the value just read is set again
C_SetBack ==
    /\ c_pc = "rawread"
    /\ c_unitcell' = set_dimensions(c_unitcell, c_dims)
    /\ c_pc' = "rawset"
    /\ UNCHANGED <<c_box, c_dims>>

CNext ==
    \/ C_WriteCell /\ UNCHANGED <<wvars, rvars>>
    \/ C_SetDimensions /\ UNCHANGED <<wvars, rvars>>
    \/ C_LoadRaw /\ UNCHANGED <<wvars, rvars>>
    \/ C_GetDimensions /\ UNCHANGED <<wvars, rvars>>
    \/ C_SetBack /\ UNCHANGED <<wvars, rvars>>

CIdle ==
    /\ c_pc = "start"
    /\ c_box = [i \in 1..6 |-> 1]
    /\ c_unitcell = ZeroCell
    /\ c_dims = <<>>

(***************************************************************************)
(* Optional values: None is <<>>, a supplied value v is <<v>>              *)
(***************************************************************************)
None == <<>>
Some(v) == <<v>>
Opt(S) == {None} \cup {Some(v) : v \in S}

(***************************************************************************)
(* DCDWriter                                                               *)
(***************************************************************************)
\* MDAnalysis.core.units.convert(dt, 'ps', 'AKMA'): 1 ps = 20.45482949774598
\* AKMA time units; times are kept in 1/100 AKMA unit, truncated
AKMAPerPs == 2045
convert(dt) == dt * AKMAPerPs

NoHeader == [natoms |-> 0, step |-> 0, delta |-> 0, nsets |-> -1]

\* _dcdmodule.__write_dcd_header: the header as written at open, with the
\* frame count 0
write_dcd_header(numatoms, step, delta) ==
    [natoms |-> numatoms, step |-> step, delta |-> delta, nsets |-> 0]

\* _dcdmodule.__finish_dcd_write on an open handle: the header with its
\* frame-count field patched with the counter
finish_dcd_write(hdr, frames_written) == [hdr EXCEPT !.nsets = frames_written]

\* DCDWriter.__init__, "if dt is not None: ... else: ...": dt <= 0 is refused
dt_refused(dt) == dt # None /\ ~(dt[1] > 0)

\* the resolution as it would be with only delta overridden by dt
resolve_step_delta_mut(step, delta, dt) ==
    IF dt # None
    THEN [step |-> step, delta |-> convert(dt[1])]
    ELSE [step |-> step, delta |-> delta]

\* DCDWriter.__init__: the (step, delta) the header is written with; a dt > 0
\* overrides both
resolve_step_delta(step, delta, dt) ==
    IF dt # None
    THEN [step |-> 1, delta |-> convert(dt[1])]
    ELSE [step |-> step, delta |-> delta]

WInit ==
    /\ w_pc = "new"
    /\ w_dcdfile = "unset"
    /\ w_numatoms = None
    /\ w_convert_units = FALSE
    /\ w_step = 0
    /\ w_delta = 0
    /\ w_frames_written = 0
    /\ w_ts = None
    /\ w_hdr = NoHeader
    /\ w_log = <<>>
    /\ w_last = [op |-> "none", err |-> "ok", args |-> <<>>]
    /\ w_stale = FALSE

\* DCDWriter.__init__(filename, numatoms, step=step, delta=delta, dt=dt,
\*                    convert_units=cu)
W_Init(numatoms, step, delta, dt, cu) ==
    /\ w_pc = "new"
    /\ LET args == [numatoms |-> numatoms, step |-> step, delta |-> delta, dt |-> dt]
           fail(e) ==
               /\ w_pc' = "failed"
               /\ w_last' = [op |-> "init", err |-> e, args |-> args]
       IN
       IF numatoms = Some(0) THEN
           /\ fail("ValueError: no atoms")
           /\ UNCHANGED <<w_dcdfile, w_numatoms, w_convert_units, w_step, w_delta,
                          w_frames_written, w_hdr, w_log>>
       ELSE IF numatoms = None THEN
           /\ fail("ValueError: numatoms required")
           /\ UNCHANGED <<w_dcdfile, w_numatoms, w_convert_units, w_step, w_delta,
                          w_frames_written, w_hdr, w_log>>
       ELSE
           /\ w_convert_units' = cu
           /\ w_numatoms' = numatoms
           /\ w_frames_written' = 0
           /\ IF dt_refused(dt) THEN
                  /\ fail("ValueError: dt must be > 0")
                  /\ UNCHANGED <<w_dcdfile, w_step, w_delta, w_hdr, w_log>>
              ELSE
                  /\ w_step' = resolve_step_delta(step, delta, dt).step
                  /\ w_delta' = resolve_step_delta(step, delta, dt).delta
                  /\ w_dcdfile' = "open"
                  /\ w_hdr' = write_dcd_header(numatoms[1], w_step', w_delta')
                  /\ w_log' = Append(w_log, <<"header", 0>>)
                  /\ w_pc' = "live"
                  /\ w_last' = [op |-> "init", err |-> "ok", args |-> args]
    /\ UNCHANGED <<w_ts, w_stale>>

\* writer.ts = ts: the caller binds a current timestep of n atoms
W_BindTs(n) ==
    /\ w_pc = "live"
    /\ w_ts # Some(n)
    /\ w_ts' = Some(n)
    /\ w_last' = [op |-> "bind", err |-> "ok", args |-> <<n>>]
    /\ UNCHANGED <<w_pc, w_dcdfile, w_numatoms, w_convert_units, w_step, w_delta,
                   w_frames_written, w_hdr, w_log, w_stale>>

\* DCDWriter.write_next_timestep(ts); ts is None or Some(number of atoms)
W_Write(ts) ==
    /\ w_pc = "live"
    /\ w_frames_written < MaxWrites
    /\ LET raise(e) ==
               /\ w_last' = [op |-> "write", err |-> e, args |-> ts]
               /\ UNCHANGED <<w_frames_written, w_hdr, w_log>>
       IN
       IF ts = None /\ w_ts = None THEN
           raise("NoDataError") /\ UNCHANGED w_stale
       ELSE IF ts # None /\ ~(ts[1] = w_numatoms[1]) THEN
           raise("ValueError: wrong number of atoms") /\ UNCHANGED w_stale
       ELSE IF ~w_convert_units THEN
           \* pos is bound only under "if self.convert_units"
           raise("UnboundLocalError: pos") /\ UNCHANGED w_stale
       ELSE IF w_dcdfile # "open" THEN
           \* _write_next_frame is called on the released handle and fails
           raise("LowLevelError") /\ w_stale' = TRUE
       ELSE
           /\ w_log' = Append(w_log, <<"frame", IF ts = None THEN w_ts[1] ELSE ts[1]>>)
           /\ UNCHANGED w_hdr
           /\ w_frames_written' = w_frames_written + 1
           /\ w_last' = [op |-> "write", err |-> "ok", args |-> ts]
           /\ UNCHANGED w_stale
    /\ UNCHANGED <<w_pc, w_dcdfile, w_numatoms, w_convert_units, w_step, w_delta, w_ts>>

\* close() as it would be with the header patch forgotten
close_mut(op) ==
    IF w_dcdfile = "open" THEN
        /\ w_log' = Append(w_log, <<"fclose", 0>>)
        /\ w_dcdfile' = "None"
        /\ w_last' = [op |-> op, err |-> "ok", args |-> <<"closed">>]
        /\ UNCHANGED <<w_stale, w_hdr>>
    ELSE
        /\ w_stale' = TRUE
        /\ w_last' = [op |-> op, err |-> "LowLevelError", args |-> <<>>]
        /\ UNCHANGED <<w_dcdfile, w_hdr, w_log>>

\* DCDWriter.close(), called as op ("close" by the caller, "del" by __del__):
\* finish, close the file object, drop the handle; there is no guard on a
\* handle that is already None
close(op) ==
    IF w_dcdfile = "open" THEN
        /\ w_hdr' = finish_dcd_write(w_hdr, w_frames_written)
        /\ w_log' = w_log \o << <<"finish", w_frames_written>>, <<"fclose", 0>> >>
        /\ w_dcdfile' = "None"
        /\ w_last' = [op |-> op, err |-> "ok", args |-> <<"closed">>]
        /\ UNCHANGED w_stale
    ELSE
        \* _finish_dcd_write is called on the released handle and fails
        /\ w_stale' = TRUE
        /\ w_last' = [op |-> op, err |-> "LowLevelError", args |-> <<>>]
        /\ UNCHANGED <<w_dcdfile, w_hdr, w_log>>

W_Close ==
    /\ w_pc = "live"
    /\ close("close")
    /\ UNCHANGED <<w_pc, w_numatoms, w_convert_units, w_step, w_delta,
                   w_frames_written, w_ts>>

\* __del__ as it would be without the test of the handle
W_Del_mut ==
    /\ w_pc \in {"live", "failed"}
    /\ w_pc' = "deleted"
    /\ close("del")
    /\ UNCHANGED <<w_numatoms, w_convert_units, w_step, w_delta, w_frames_written,
                   w_ts>>

\* DCDWriter.__del__()
W_Del ==
    /\ w_pc \in {"live", "failed"}
    /\ w_pc' = "deleted"
    /\ IF w_dcdfile # "unset" /\ w_dcdfile # "None" THEN
           close("del")
       ELSE
           /\ w_last' = [op |-> "del", err |-> "ok", args |-> <<>>]
           /\ UNCHANGED <<w_dcdfile, w_hdr, w_log, w_stale>>
    /\ UNCHANGED <<w_numatoms, w_convert_units, w_step, w_delta, w_frames_written,
                   w_ts>>

NumatomsArgs == Opt(-1..MaxAtoms)
DtArgs == Opt(-1..MaxDt)
TsArgs == Opt(1..MaxAtoms)

WNext ==
    \/ \E n \in NumatomsArgs, s \in 1..MaxStep, d \in 1..MaxDelta, dt \in DtArgs,
          cu \in BOOLEAN : W_Init(n, s, d, dt, cu) /\ UNCHANGED <<cvars, rvars>>
    \/ \E n \in 1..MaxAtoms : W_BindTs(n) /\ UNCHANGED <<cvars, rvars>>
    \/ \E ts \in TsArgs : W_Write(ts) /\ UNCHANGED <<cvars, rvars>>
    \/ W_Close /\ UNCHANGED <<cvars, rvars>>
    \/ W_Del /\ UNCHANGED <<cvars, rvars>>

(***************************************************************************)
(* DCDReader                                                               *)
(***************************************************************************)
\* the coordinates stored in frame i (0-based) of the file
FrameData(i) == 100 + i

NoTs == [frame |-> -1, data |-> -1]
\* Timestep(numatoms): zeroed arrays
NewTs == [frame |-> 0, data |-> 0]

\* A generator of __iter__: st is its stage, k the position in its xrange,
\* n and skip the length and the step of the xrange (read from self.numframes
\* and self.skip at the first next()).  History kept for the claims: alone
\* is FALSE once another call moved the file position during the iteration,
\* fixed is FALSE once self.skip was changed during the iteration.
NoIter == [st |-> "none", k |-> 0, n |-> 0, skip |-> 0,
           alone |-> TRUE, fixed |-> TRUE]

Active(it) == it.st \in {"fresh", "running"}

\* the generators other than slot id that are under way lose "alone"
NotAlone(iters, id) ==
    [j \in DOMAIN iters |->
        IF j # id /\ Active(iters[j]) THEN [iters[j] EXCEPT !.alone = FALSE]
        ELSE iters[j]]

\* the generators under way lose "fixed"
NotFixed(iters) ==
    [j \in DOMAIN iters |->
        IF Active(iters[j]) THEN [iters[j] EXCEPT !.fixed = FALSE] ELSE iters[j]]

\* _dcdmodule.__read_next_frame(x, y, z, unitcell, skip) on an open handle at
\* position cursor of a file of nsets frames: at the end of the file it fails
\* with IOError; with skip > 1 it first skips forward to the next frame whose
\* 1-based number is a multiple of skip; it decodes that frame, moves past it
\* and returns the number of frames passed
read_next_frame(cursor, skip, nsets) ==
    LET numskip == IF skip > 1 THEN skip - (cursor % skip) - 1 ELSE 0
        at == cursor + numskip
    IN  IF cursor >= nsets \/ at >= nsets
        THEN [ok |-> FALSE, cursor |-> nsets, ts |-> NoTs]
        ELSE [ok |-> TRUE, cursor |-> at + 1,
              ts |-> [frame |-> at + 1, data |-> FrameData(at)]]

\* _dcdmodule.__jump_to_frame(frame) on an open handle: the new position
jump_to_frame(frame) == frame

\* _dcdmodule.__reset_dcd_read() on an open handle: the new position
reset_dcd_read == 0

\* len(self)
len == r_numframes

\* the index resolution as it would be without the negative-index case
resolve_index_mut(frame) == frame

\* DCDReader.__getitem__: a negative index counts from the end
resolve_index(frame) == IF frame < 0 THEN len + frame ELSE frame

\* the read as it would be without the jump: decodes at the current position
getitem_read_mut(i) == read_next_frame(r_cursor, 1, r_file.nsets)

\* DCDReader.__getitem__: jump to frame i, then decode one frame with stride 1
getitem_read(i) == read_next_frame(jump_to_frame(i), 1, r_file.nsets)

\* Values handed to reader[...] as an index or as a bound of a slice, with
\* their Python type: None, an int, or something that is neither
NoneV == [ty |-> "NoneType", v |-> 0]
IntV(i) == [ty |-> "int", v |-> i]
FloatV(i) == [ty |-> "float", v |-> i]
StrV == [ty |-> "str", v |-> 0]

\* the two generators of reader[start:stop:step] that the model follows
SliceIds == {"a", "b"}

\* A generator iterDCD of the slice branch of __getitem__: st is its stage,
\* start, stop, step its locals (the bounds of the slice until the first
\* next(), the checked indices after it), k the position in its xrange;
\* args remembers the slice it was made from.
NoSlice == [st |-> "none", args |-> <<NoneV, NoneV, NoneV>>,
            start |-> NoneV, stop |-> NoneV, step |-> NoneV, k |-> 0]

RFiles == {[zero |-> TRUE, nsets |-> 0]} \cup
          {[zero |-> FALSE, nsets |-> n] : n \in 0..MaxFrames}

RInit ==
    /\ r_pc = "new"
    /\ r_file \in RFiles
    /\ r_dcdfile = "unset"
    /\ r_numframes = 0
    /\ r_skip = 1
    /\ r_cursor = 0
    /\ r_ts = NoTs
    /\ r_iters = [id \in 1..MaxIters |-> NoIter]
    /\ r_slices = [id \in SliceIds |-> NoSlice]
    /\ r_last = [op |-> "none", err |-> "ok", args |-> <<>>, seeks |-> 0,
                 decodes |-> 0, res |-> NoTs]
    /\ r_closes = 0
    /\ r_stale = FALSE

RIdle ==
    /\ r_pc = "new"
    /\ r_file = [zero |-> TRUE, nsets |-> 0]
    /\ r_dcdfile = "unset"
    /\ r_numframes = 0
    /\ r_skip = 1
    /\ r_cursor = 0
    /\ r_ts = NoTs
    /\ r_iters = [id \in 1..MaxIters |-> NoIter]
    /\ r_slices = [id \in SliceIds |-> NoSlice]
    /\ r_last = [op |-> "none", err |-> "ok", args |-> <<>>, seeks |-> 0,
                 decodes |-> 0, res |-> NoTs]
    /\ r_closes = 0
    /\ r_stale = FALSE

Ret(op, err, args, seeks, decodes, res) ==
    [op |-> op, err |-> err, args |-> args, seeks |-> seeks, decodes |-> decodes,
     res |-> res]

\* __init__ as it would be with the file opened before the size test
R_Init_mut ==
    /\ r_pc = "new"
    /\ r_dcdfile' = "open"
    /\ IF r_file.zero THEN
           /\ r_pc' = "failed"
           /\ r_last' = Ret("init", "IOError: zero size", <<>>, 0, 0, NoTs)
           /\ UNCHANGED <<r_numframes, r_skip, r_cursor, r_ts>>
       ELSE
           LET rd == read_next_frame(0, 1, r_file.nsets) IN
           /\ r_skip' = 1
           /\ r_numframes' = r_file.nsets
           /\ r_cursor' = rd.cursor
           /\ IF rd.ok THEN
                  /\ r_ts' = rd.ts
                  /\ r_pc' = "live"
                  /\ r_last' = Ret("init", "ok", <<>>, 0, 1, rd.ts)
              ELSE
                  /\ r_ts' = NewTs
                  /\ r_pc' = "failed"
                  /\ r_last' = Ret("init", "IOError", <<>>, 0, 0, NoTs)
    /\ UNCHANGED <<r_file, r_iters, r_closes, r_stale>>

\* DCDReader.__init__(dcdfilename)
R_Init ==
    /\ r_pc = "new"
    /\ IF r_file.zero THEN
           \* st_size == 0: IOError before open()
           /\ r_dcdfile' = "None"
           /\ r_pc' = "failed"
           /\ r_last' = Ret("init", "IOError: zero size", <<>>, 0, 0, NoTs)
           /\ UNCHANGED <<r_numframes, r_skip, r_cursor, r_ts>>
       ELSE
           LET rd == read_next_frame(0, 1, r_file.nsets) IN
           /\ r_dcdfile' = "open"
           /\ r_skip' = 1
           /\ r_numframes' = r_file.nsets
           /\ r_cursor' = rd.cursor
           /\ IF rd.ok THEN
                  /\ r_ts' = rd.ts
                  /\ r_pc' = "live"
                  /\ r_last' = Ret("init", "ok", <<>>, 0, 1, rd.ts)
              ELSE
                  /\ r_ts' = NewTs
                  /\ r_pc' = "failed"
                  /\ r_last' = Ret("init", "IOError", <<>>, 0, 0, NoTs)
    /\ UNCHANGED <<r_file, r_iters, r_closes, r_stale>>

\* reader.skip = k
R_SetSkip(k) ==
    /\ r_pc = "live"
    /\ r_skip # k
    /\ r_skip' = k
    /\ r_last' = Ret("setskip", "ok", <<k>>, 0, 0, NoTs)
    /\ r_iters' = NotFixed(r_iters)
    /\ UNCHANGED <<r_pc, r_file, r_dcdfile, r_numframes, r_cursor, r_ts,
                   r_closes, r_stale>>

\* DCDReader.__getitem__(frame), frame an integer
R_GetItem(frame) ==
    /\ r_pc = "live"
    /\ LET i == resolve_index(frame)
           rd == getitem_read(i)
       IN
       IF (i < 0) \/ (i >= len) THEN
           /\ r_last' = Ret("getitem", "IndexError", <<frame>>, 0, 0, NoTs)
           /\ UNCHANGED <<r_cursor, r_ts, r_stale, r_iters>>
       ELSE IF r_dcdfile # "open" THEN
           \* _jump_to_frame is called on the released handle and fails
           /\ r_stale' = TRUE
           /\ r_last' = Ret("getitem", "LowLevelError", <<frame>>, 0, 0, NoTs)
           /\ UNCHANGED <<r_cursor, r_ts, r_iters>>
       ELSE
           /\ r_cursor' = rd.cursor
           /\ r_ts' = IF rd.ok THEN rd.ts ELSE r_ts
           /\ r_last' = IF rd.ok THEN Ret("getitem", "ok", <<frame>>, 1, 1, rd.ts)
                        ELSE Ret("getitem", "IOError", <<frame>>, 1, 0, NoTs)
           /\ r_iters' = NotAlone(r_iters, 0)
           /\ UNCHANGED r_stale
    /\ UNCHANGED <<r_pc, r_file, r_dcdfile, r_numframes, r_skip, r_closes>>

\* DCDReader.__iter__(): resets the file, then returns a new generator, kept
\* by the caller in slot id
R_Iter(id) ==
    /\ r_pc = "live"
    /\ IF r_dcdfile # "open" THEN
           \* _reset_dcd_read is called on the released handle and fails
           /\ r_stale' = TRUE
           /\ r_last' = Ret("iter", "LowLevelError", <<id>>, 0, 0, NoTs)
           /\ UNCHANGED <<r_cursor, r_iters>>
       ELSE
           /\ r_cursor' = reset_dcd_read
           /\ r_iters' = [NotAlone(r_iters, id) EXCEPT
                              ![id] = [NoIter EXCEPT !.st = "fresh"]]
           /\ r_last' = Ret("iter", "ok", <<id>>, 1, 0, NoTs)
           /\ UNCHANGED r_stale
    /\ UNCHANGED <<r_pc, r_file, r_dcdfile, r_numframes, r_skip, r_ts, r_closes>>

\* DCDReader._read_next_timestep(): one sequential read with stride self.skip
\* into self.ts
read_next_timestep == read_next_frame(r_cursor, r_skip, r_file.nsets)

\* next() on the generator iterDCD of __iter__ kept in slot id
R_IterNext(id) ==
    /\ r_pc = "live"
    /\ r_iters[id].st \in {"fresh", "running"}
    /\ LET it == r_iters[id]
           \* len(xrange(0, self.numframes, self.skip)), fixed at the first next()
           n == IF it.st = "fresh" THEN (r_numframes + r_skip - 1) \div r_skip ELSE it.n
           step == IF it.st = "fresh" THEN r_skip ELSE it.skip
           rd == read_next_timestep
           done == [NoIter EXCEPT !.st = "done"]
       IN
       IF it.k >= n THEN
           /\ r_iters' = [r_iters EXCEPT ![id] = done]
           /\ r_last' = Ret("next", "StopIteration", <<id>>, 0, 0, NoTs)
           /\ UNCHANGED <<r_cursor, r_ts, r_stale>>
       ELSE IF r_dcdfile # "open" THEN
           \* _read_next_frame is called on the released handle and fails
           /\ r_stale' = TRUE
           /\ r_iters' = [r_iters EXCEPT ![id] = done]
           /\ r_last' = Ret("next", "LowLevelError", <<id>>, 0, 0, NoTs)
           /\ UNCHANGED <<r_cursor, r_ts>>
       ELSE IF ~rd.ok THEN
           \* except IOError: raise StopIteration
           /\ r_cursor' = rd.cursor
           /\ r_iters' = [NotAlone(r_iters, id) EXCEPT ![id] = done]
           /\ r_last' = Ret("next", "StopIteration", <<id>>, 0, 0, NoTs)
           /\ UNCHANGED <<r_ts, r_stale>>
       ELSE
           /\ r_cursor' = rd.cursor
           /\ r_ts' = rd.ts
           /\ r_iters' = [NotAlone(r_iters, id) EXCEPT
                              ![id] = [it EXCEPT !.st = "running", !.k = it.k + 1,
                                                 !.n = n, !.skip = step]]
           /\ r_last' = Ret("next", "ok", <<id>>, 0, 1, rd.ts)
           /\ UNCHANGED r_stale
    /\ UNCHANGED <<r_pc, r_file, r_dcdfile, r_numframes, r_skip, r_closes>>

\* DCDReader.close(), called as op ("close" by the caller, "del" by __del__):
\* finish, close the file object, drop the handle; there is no guard on a
\* handle that is already None
reader_close(op) ==
    IF r_dcdfile = "open" THEN
        /\ r_closes' = r_closes + 1
        /\ r_dcdfile' = "None"
        /\ r_last' = Ret(op, "ok", <<"closed">>, 0, 0, NoTs)
        /\ UNCHANGED r_stale
    ELSE
        \* _finish_dcd_read is called on the released handle and fails
        /\ r_stale' = TRUE
        /\ r_last' = Ret(op, "LowLevelError", <<>>, 0, 0, NoTs)
        /\ UNCHANGED <<r_dcdfile, r_closes>>

R_Close ==
    /\ r_pc = "live"
    /\ reader_close("close")
    /\ UNCHANGED <<r_pc, r_file, r_numframes, r_skip, r_cursor, r_ts, r_iters>>

\* DCDReader.__del__()
R_Del ==
    /\ r_pc \in {"live", "failed"}
    /\ r_pc' = "deleted"
    /\ IF r_dcdfile # "None" THEN
           reader_close("del")
       ELSE
           /\ r_last' = Ret("del", "ok", <<>>, 0, 0, NoTs)
           /\ UNCHANGED <<r_dcdfile, r_closes, r_stale>>
    /\ UNCHANGED <<r_file, r_numframes, r_skip, r_cursor, r_ts, r_iters>>

FrameArgs == (0 - MaxFrames - 1)..MaxFrames

RNext ==
    \/ R_Init /\ UNCHANGED <<cvars, wvars, r_slices>>
    \/ \E k \in 1..MaxSkip : R_SetSkip(k) /\ UNCHANGED <<cvars, wvars, r_slices>>
    \/ \E f \in FrameArgs : R_GetItem(f) /\ UNCHANGED <<cvars, wvars, r_slices>>
    \/ \E id \in 1..MaxIters : R_Iter(id) /\ UNCHANGED <<cvars, wvars, r_slices>>
    \/ \E id \in 1..MaxIters : R_IterNext(id) /\ UNCHANGED <<cvars, wvars, r_slices>>
    \/ R_Close /\ UNCHANGED <<cvars, wvars, r_slices>>
    \/ R_Del /\ UNCHANGED <<cvars, wvars, r_slices>>

(***************************************************************************)
(* DCDReader.__getitem__ with any index: the type test and the slice branch *)
(***************************************************************************)
\* numpy.dtype(type(frame)) == numpy.dtype(int)
is_int(x) == x.ty = "int"

\* the test of the bounds of a slice as it would be if it were left to the
\* generator: any bound is let through
slice_bounds_ok_mut(start, stop, step) == TRUE

\* every bound of the slice is an int or None
slice_bounds_ok(start, stop, step) ==
    \A b \in {start, stop, step} : b.ty = "int" \/ b = NoneV

\* Reader._check_slice_indices(start, stop, step): omitted bounds become 0,
\* len and 1, negative bounds count from the end, a stop beyond the end is
\* the end; a start or stop that is still outside the trajectory is refused
check_slice_indices(start, stop, step) ==
    LET s0 == IF start = NoneV THEN 0 ELSE start.v
        e0 == IF stop = NoneV THEN len ELSE stop.v
        k  == IF step = NoneV THEN 1 ELSE step.v
        s1 == IF s0 < 0 THEN s0 + len ELSE s0
        e1 == IF e0 < 0 THEN e0 + len ELSE IF e0 > len THEN len ELSE e0
    IN  IF (s1 < 0) \/ (s1 >= len) \/ (e1 < 0) \/ (e1 > len)
        THEN [err |-> "IndexError", start |-> s1, stop |-> e1, step |-> k]
        ELSE [err |-> "ok", start |-> s1, stop |-> e1, step |-> k]

\* element k of xrange(start, stop, step), and whether the range has one
xrange_at(start, step, k) == start + k * step
\* the range as it would be with the stop included
xrange_has_mut(start, stop, step, k) ==
    \/ step > 0 /\ xrange_at(start, step, k) <= stop
    \/ step < 0 /\ xrange_at(start, step, k) >= stop

xrange_has(start, stop, step, k) ==
    \/ step > 0 /\ xrange_at(start, step, k) < stop
    \/ step < 0 /\ xrange_at(start, step, k) > stop

\* reader[x] for x that is not a slice: TypeError unless x is an int
R_Index(x) ==
    IF ~is_int(x) THEN
        /\ r_pc = "live"
        /\ r_last' = Ret("getitem", "TypeError", <<>>, 0, 0, NoTs)
        /\ UNCHANGED <<r_pc, r_file, r_dcdfile, r_numframes, r_skip, r_cursor, r_ts,
                       r_iters, r_closes, r_stale>>
    ELSE R_GetItem(x.v)

\* reader[start:stop:step], the generator kept in slot id: the bounds are
\* tested by the call, nothing is read before the first next()
R_Slice(id, start, stop, step) ==
    /\ r_pc = "live"
    /\ r_slices[id].st = "none"
    /\ IF ~slice_bounds_ok(start, stop, step) THEN
           /\ r_last' = Ret("slice", "TypeError", <<>>, 0, 0, NoTs)
           /\ UNCHANGED r_slices
       ELSE
           /\ r_slices' = [r_slices EXCEPT ![id] =
                              [st |-> "fresh", args |-> <<start, stop, step>>,
                               start |-> start, stop |-> stop, step |-> step,
                               k |-> 0]]
           /\ r_last' = Ret("slice", "ok", <<id>>, 0, 0, NoTs)
    /\ UNCHANGED <<r_pc, r_file, r_dcdfile, r_numframes, r_skip, r_cursor, r_ts,
                   r_iters, r_closes, r_stale>>

\* next() on the generator iterDCD of the slice kept in slot id: the first
\* one checks the indices, every one that has an element left yields self[i]
R_SliceNext(id) ==
    /\ r_pc = "live"
    /\ r_slices[id].st \in {"fresh", "running"}
    /\ LET sl == r_slices[id]
           chk == IF sl.st = "fresh"
                  THEN check_slice_indices(sl.start, sl.stop, sl.step)
                  ELSE [err |-> "ok", start |-> sl.start.v, stop |-> sl.stop.v,
                        step |-> sl.step.v]
           i == xrange_at(chk.start, chk.step, sl.k)
           j == resolve_index(i)
           rd == getitem_read(j)
           checked == [sl EXCEPT !.start = IntV(chk.start), !.stop = IntV(chk.stop),
                                 !.step = IntV(chk.step)]
           ended(err, seeks) ==
               /\ r_slices' = [r_slices EXCEPT ![id] = [checked EXCEPT !.st = "done"]]
               /\ r_last' = Ret("slicenext", err, <<id>>, seeks, 0, NoTs)
       IN
       IF chk.err # "ok" THEN
           ended(chk.err, 0) /\ UNCHANGED <<r_cursor, r_ts, r_stale, r_iters>>
       ELSE IF chk.step = 0 THEN
           \* xrange() arg 3 must not be zero
           ended("ValueError", 0) /\ UNCHANGED <<r_cursor, r_ts, r_stale, r_iters>>
       ELSE IF ~xrange_has(chk.start, chk.stop, chk.step, sl.k) THEN
           ended("StopIteration", 0) /\ UNCHANGED <<r_cursor, r_ts, r_stale, r_iters>>
       ELSE IF (j < 0) \/ (j >= len) THEN
           ended("IndexError", 0) /\ UNCHANGED <<r_cursor, r_ts, r_stale, r_iters>>
       ELSE IF r_dcdfile # "open" THEN
           \* _jump_to_frame is called on the released handle and fails
           /\ ended("LowLevelError", 0)
           /\ r_stale' = TRUE
           /\ UNCHANGED <<r_cursor, r_ts, r_iters>>
       ELSE IF ~rd.ok THEN
           /\ ended("IOError", 1)
           /\ r_cursor' = rd.cursor
           /\ r_iters' = NotAlone(r_iters, 0)
           /\ UNCHANGED <<r_ts, r_stale>>
       ELSE
           /\ r_cursor' = rd.cursor
           /\ r_ts' = rd.ts
           /\ r_slices' = [r_slices EXCEPT ![id] =
                              [checked EXCEPT !.st = "running", !.k = sl.k + 1]]
           /\ r_last' = Ret("slicenext", "ok", <<id>>, 1, 1, rd.ts)
           /\ r_iters' = NotAlone(r_iters, 0)
           /\ UNCHANGED r_stale
    /\ UNCHANGED <<r_pc, r_file, r_dcdfile, r_numframes, r_skip, r_closes>>

\* the values tried as an index and as the bounds of a slice
IndexArgs == {IntV(-1), FloatV(0), StrV}
SliceStarts == {NoneV, IntV(1), FloatV(1)}
SliceStops == {NoneV, IntV(-1), StrV}
SliceSteps == {NoneV, IntV(2), IntV(-1), FloatV(2)}

SNext ==
    \/ R_Init /\ UNCHANGED <<cvars, wvars, r_slices>>
    \/ \E x \in IndexArgs : R_Index(x) /\ UNCHANGED <<cvars, wvars, r_slices>>
    \/ \E id \in SliceIds : \E start \in SliceStarts : \E stop \in SliceStops :
           \E step \in SliceSteps :
               R_Slice(id, start, stop, step) /\ UNCHANGED <<cvars, wvars>>
    \/ \E id \in SliceIds : R_SliceNext(id) /\ UNCHANGED <<cvars, wvars>>

(***************************************************************************)
(* DCDReader.timeseries                                                    *)
(***************************************************************************)
\* the six orders of (a)tom, (f)rame, (c)oordinate, as strings of characters
TimeseriesFormats ==
    {<<"a", "f", "c">>, <<"a", "c", "f">>, <<"c", "a", "f">>,
     <<"c", "f", "a">>, <<"f", "a", "c">>, <<"f", "c", "a">>}

\* if len(format) != 3 and format not in [...]: raise ValueError
format_refused(format) == Len(format) # 3 /\ format \notin TimeseriesFormats

\* _read_timeseries(atoms, start, stop, skip, format): decodes the frames
\* start, start+skip, ... up to and including stop; it is handed the format
\* as it is
read_timeseries(start, stop, skip) ==
    IF stop >= start /\ skip > 0 THEN (stop - start) \div skip + 1 ELSE 0

\* DCDReader.timeseries(asel, start, stop, skip, format), asel of natoms atoms
R_Timeseries(natoms, start, stop, skip, format) ==
    /\ r_pc = "live"
    /\ LET chk == check_slice_indices(start, stop, skip)
           args == <<natoms, start.v, stop.v, skip.v, format>>
       IN
       IF chk.err # "ok" THEN
           /\ r_last' = Ret("timeseries", chk.err, args, 0, 0, NoTs)
           /\ UNCHANGED <<r_cursor, r_stale>>
       ELSE IF natoms = 0 THEN
           /\ r_last' = Ret("timeseries", "NoDataError", args, 0, 0, NoTs)
           /\ UNCHANGED <<r_cursor, r_stale>>
       ELSE IF format_refused(format) THEN
           /\ r_last' = Ret("timeseries", "ValueError: format", args, 0, 0, NoTs)
           /\ UNCHANGED <<r_cursor, r_stale>>
       ELSE IF r_dcdfile # "open" THEN
           \* _read_timeseries is called on the released handle and fails
           /\ r_stale' = TRUE
           /\ r_last' = Ret("timeseries", "LowLevelError", args, 0, 0, NoTs)
           /\ UNCHANGED r_cursor
       ELSE
           LET n == read_timeseries(chk.start, chk.stop, chk.step) IN
           /\ r_cursor' = IF n > 0 THEN chk.start + (n - 1) * chk.step + 1 ELSE r_cursor
           /\ r_last' = Ret("timeseries", "ok", args, n, n, NoTs)
           /\ UNCHANGED r_stale
    /\ r_iters' = NotAlone(r_iters, 0)
    /\ UNCHANGED <<r_pc, r_file, r_dcdfile, r_numframes, r_skip, r_ts, r_slices,
                   r_closes>>

\* the formats tried: the six, and strings of 0, 2, 3 and 4 characters that
\* are none of them
FormatArgs ==
    TimeseriesFormats \cup
    {<<>>, <<"a", "f">>, <<"x", "y", "z">>, <<"a", "a", "a">>, <<"a", "f", "c", "a">>}

TNext ==
    \/ R_Init /\ UNCHANGED <<cvars, wvars, r_slices>>
    \/ \E natoms \in 0..MaxAtoms : \E start \in 0..MaxFrames : \E format \in FormatArgs :
           R_Timeseries(natoms, IntV(start), IntV(-1), IntV(1), format)
           /\ UNCHANGED <<cvars, wvars>>
    \/ R_Close /\ UNCHANGED <<cvars, wvars, r_slices>>

(***************************************************************************)
(* The life of one writer and one reader: construction, close, destruction *)
(***************************************************************************)
LNext ==
    \/ \E n \in NumatomsArgs, s \in 1..MaxStep, d \in 1..MaxDelta, dt \in DtArgs,
          cu \in BOOLEAN : W_Init(n, s, d, dt, cu) /\ UNCHANGED <<cvars, rvars>>
    \/ W_Close /\ UNCHANGED <<cvars, rvars>>
    \/ W_Del /\ UNCHANGED <<cvars, rvars>>
    \/ R_Init /\ UNCHANGED <<cvars, wvars, r_slices>>
    \/ R_Close /\ UNCHANGED <<cvars, wvars, r_slices>>
    \/ R_Del /\ UNCHANGED <<cvars, wvars, r_slices>>

(***************************************************************************)
(* Specifications                                                          *)
(***************************************************************************)
Init == CInit /\ WInit /\ RInit
Next == CNext \/ WNext \/ RNext \/ SNext \/ TNext \/ LNext
Spec == Init /\ [][Next]_vars

InitCell == CInit /\ WInit /\ RIdle
SpecCell == InitCell /\ [][CNext]_vars

InitWriter == CIdle /\ WInit /\ RIdle
SpecWriter == InitWriter /\ [][WNext]_vars

InitReader == CIdle /\ WInit /\ RInit
SpecReader == InitReader /\ [][RNext]_vars

InitSlice == CIdle /\ WInit /\ RInit
SpecSlice == InitSlice /\ [][SNext]_vars

InitLife == CIdle /\ WInit /\ RInit
SpecLife == InitLife /\ [][LNext]_vars

InitSeries == CIdle /\ WInit /\ RInit
SpecSeries == InitSeries /\ [][TNext]_vars

(***************************************************************************)
(* Claims                                                                  *)
(***************************************************************************)

\* C1: for every canonical vector (A, B, C, alpha, beta, gamma), what
\* Timestep.dimensions reads back from the raw unit cell produced by
\* DCDWriter.convert_dimensions_to_unitcell is the original vector.
C1_RoundTrip == (c_pc = "read") => (c_dims = c_box)

\* C2: once close() has succeeded, a further close() raises no error and
\* changes nothing: no low-level routine runs, nothing is written.
C2_CloseIdempotent ==
    [][(w_pc = "live" /\ w_dcdfile = "None" /\ w_last'.op = "close")
         => (w_last'.err = "ok" /\ ~w_stale' /\ w_log' = w_log /\ w_hdr' = w_hdr)]_vars

\* C3: after close(), a read with a valid index or a step of an iteration
\* fails with the closed-resource error, and no low-level routine is ever
\* invoked on the released handle.
C3_ClosedReaderGuarded ==
    (r_pc = "live" /\ r_dcdfile = "None" /\ r_last.op \in {"getitem", "iter", "next"}
     /\ r_last.err \notin {"IndexError", "StopIteration"})
        => (r_last.err = "ClosedResourceError" /\ ~r_stale)

LogCount(kind) == Cardinality({i \in 1..Len(w_log) : w_log[i][1] = kind})

\* C4: the header is written exactly once, at open, with frame count 0 and
\* before any frame; frames_written is 0 after open and is incremented by
\* exactly the write_next_timestep calls that succeed; close() patches the
\* on-disk frame count with the counter exactly once and only then closes
\* the file and drops the handle.
C4_FrameCountLifecycle ==
    [][/\ (w_dcdfile' = "unset") => (w_log' = <<>> /\ w_hdr' = NoHeader)
       /\ (w_dcdfile' # "unset") =>
             /\ w_log'[1] = <<"header", 0>>
             /\ LogCount("header")' = 1
             /\ w_frames_written' = LogCount("frame")'
       /\ (w_last'.op = "init" /\ w_last'.err = "ok") =>
             (w_frames_written' = 0 /\ w_hdr'.nsets = 0 /\ Len(w_log') = 1)
       /\ (w_last'.op = "write") =>
             w_frames_written' =
                 w_frames_written + (IF w_last'.err = "ok" THEN 1 ELSE 0)
       /\ (w_dcdfile' = "open") =>
             (w_hdr'.nsets = 0 /\ LogCount("finish")' = 0 /\ LogCount("fclose")' = 0)
       /\ (w_dcdfile' = "None") =>
             /\ w_hdr'.nsets = w_frames_written'
             /\ LogCount("finish")' = 1
             /\ LogCount("fclose")' = 1
             /\ w_log'[Len(w_log') - 1] = <<"finish", w_frames_written'>>
             /\ w_log'[Len(w_log')] = <<"fclose", 0>>
      ]_vars

\* a writer closed twice after two frames, the second close having failed
C4_Witness ==
    /\ w_dcdfile = "None"
    /\ w_frames_written = 2
    /\ w_hdr.nsets = 2
    /\ w_stale

\* C5: a write_next_timestep(ts) whose ts.numatoms differs from the writer's
\* fails with ValueError, writes no frame, leaves frames_written unchanged
\* and leaves the writer open; the write of a correctly sized frame that
\* follows it succeeds and is counted.
C5_MismatchKeepsWriterUsable ==
    [][/\ (w_dcdfile = "open" /\ w_last'.op = "write" /\ w_last'.args # None
           /\ w_last'.args # w_numatoms)
             => /\ w_last'.err = "ValueError: wrong number of atoms"
                /\ w_frames_written' = w_frames_written
                /\ w_log' = w_log
                /\ w_dcdfile' = "open"
       /\ (w_dcdfile = "open" /\ w_last.op = "write"
           /\ w_last.err = "ValueError: wrong number of atoms"
           /\ w_last'.op = "write" /\ w_last'.args = w_numatoms)
             => /\ w_last'.err = "ok"
                /\ w_frames_written' = w_frames_written + 1
                /\ w_log' = Append(w_log, <<"frame", w_numatoms[1]>>)
      ]_vars

InvalidArgument ==
    {"ValueError: no atoms", "ValueError: numatoms required", "ValueError: dt must be > 0"}

\* C6: the constructor refuses every numatoms that is zero, negative or
\* None with an invalid-argument error ("numatoms required" for None, "no
\* atoms" otherwise), and then no file is opened and no header written.
C6_NumatomsValidated ==
    (w_last.op = "init"
     /\ (w_last.args.numatoms = None \/ w_last.args.numatoms[1] <= 0))
        => /\ w_last.err = IF w_last.args.numatoms = None
                           THEN "ValueError: numatoms required"
                           ELSE "ValueError: no atoms"
           /\ w_dcdfile = "unset"
           /\ w_log = <<>>
           /\ w_hdr = NoHeader

\* C7: without dt the header carries the caller's step and delta; with a
\* dt > 0 it carries step 1 and delta = dt converted from ps to AKMA
\* whatever step and delta were passed; with a dt <= 0 the constructor fails
\* with an invalid-argument error, no file opened and no header written.
C7_StepDeltaResolution ==
    (w_last.op = "init") =>
        LET a == w_last.args IN
        /\ (a.dt # None /\ a.dt[1] <= 0) =>
              /\ w_last.err \in InvalidArgument
              /\ w_dcdfile = "unset"
              /\ w_log = <<>>
              /\ w_hdr = NoHeader
        /\ (a.dt = None /\ a.numatoms \notin {None, Some(0)}) =>
              /\ w_last.err = "ok"
              /\ w_hdr.step = a.step /\ w_hdr.delta = a.delta
              /\ w_step = a.step /\ w_delta = a.delta
        /\ (a.dt # None /\ a.dt[1] > 0 /\ a.numatoms \notin {None, Some(0)}) =>
              /\ w_last.err = "ok"
              /\ w_hdr.step = 1 /\ w_hdr.delta = a.dt[1] * AKMAPerPs
              /\ w_step = 1 /\ w_delta = a.dt[1] * AKMAPerPs

\* a writer opened with dt = 2 ps and step = 2, delta = 2: both overridden
C7_Witness ==
    /\ w_last.op = "init" /\ w_last.err = "ok"
    /\ w_last.args.dt = Some(2) /\ w_last.args.step = 2 /\ w_last.args.delta = 2
    /\ w_hdr.step = 1 /\ w_hdr.delta = 4090

\* C8: on a zero-byte file the constructor fails with IOError with no file
\* handle opened and no header parsed, and the destruction of that reader
\* runs no close path; on a file holding at least one frame the constructor
\* parses the header and reads frame 0 into the reader's Frame buffer.
C8_OpenGuard ==
    /\ r_file.zero =>
          /\ r_dcdfile \in {"unset", "None"}
          /\ r_closes = 0 /\ ~r_stale
          /\ r_numframes = 0 /\ r_ts = NoTs
          /\ (r_last.op = "init") => (r_last.err = "IOError: zero size" /\ r_pc = "failed")
          /\ (r_last.op = "del") => (r_last.args = <<>>)
    /\ (r_last.op = "init" /\ ~r_file.zero /\ r_file.nsets >= 1) =>
          /\ r_last.err = "ok" /\ r_pc = "live"
          /\ r_dcdfile = "open"
          /\ r_numframes = r_file.nsets
          /\ r_ts = [frame |-> 1, data |-> 100]
          /\ r_last.decodes = 1

\* the reader that failed on a zero-byte file has been destroyed
C8_Witness == r_file.zero /\ r_pc = "deleted" /\ r_last.op = "del"

\* C9: reader[i] with i in [-nsets, nsets) returns frame i, or nsets + i for
\* a negative i, after one seek and one decode; any other i fails with
\* IndexError with no seek and no decode, the file position and the Frame
\* buffer unchanged.
C9_IntegerIndexing ==
    [][(r_last'.op = "getitem") =>
          LET f == r_last'.args[1]
              n == r_numframes
          IN  IF f >= 0 - n /\ f < n
              THEN (r_dcdfile = "open") =>
                      /\ r_last'.err = "ok"
                      /\ r_last'.res.data = 100 + (IF f >= 0 THEN f ELSE n + f)
                      /\ r_ts' = r_last'.res
                      /\ r_last'.seeks = 1 /\ r_last'.decodes = 1
              ELSE /\ r_last'.err = "IndexError"
                   /\ r_last'.seeks = 0 /\ r_last'.decodes = 0
                   /\ r_cursor' = r_cursor
                   /\ r_ts' = r_ts
      ]_vars

\* reader[-1] on a file of three frames returned the last frame
C9_Witness ==
    /\ r_last.op = "getitem" /\ r_last.args = <<-1>> /\ r_last.err = "ok"
    /\ r_numframes = 3
    /\ r_ts.data = 102

\* C10: whatever was done before on an open reader (sequential iteration,
\* other reader[j] calls, changes of skip), reader[i] for a valid i yields
\* frame i, and asking again yields the same content.
C10_RandomAccessStateless ==
    /\ (r_last.op = "getitem" /\ r_last.err = "ok") =>
          /\ r_last.res.data = 100 + (IF r_last.args[1] >= 0 THEN r_last.args[1]
                                      ELSE r_numframes + r_last.args[1])
          /\ r_ts = r_last.res
    /\ (r_pc = "live" /\ r_dcdfile = "open") =>
          \A i \in 0..(r_numframes - 1) :
              /\ getitem_read(i).ok
              /\ getitem_read(i).ts.data = 100 + i

\* reader[0] answered in the middle of an iteration with skip = 2, the file
\* position having been elsewhere
C10_Witness ==
    /\ r_last.op = "getitem" /\ r_last.args = <<0>> /\ r_last.err = "ok"
    /\ r_skip = 2
    /\ r_iters[1].st = "running"
    /\ r_ts.data = 100


\* C11: an iteration over a reader with stride skip = k >= 1 that nothing
\* disturbs (no other read moves the file position, skip is not changed, the
\* reader stays open) yields exactly the frames 0, k, 2k, ... below nsets, in
\* that order, and then ends: its step number n yields frame n*k while n*k is
\* below nsets, and ends the iteration otherwise.
C11_StrideIteration ==
    [][\A id \in DOMAIN r_iters :
         LET it == r_iters[id]
             k == IF it.st = "fresh" THEN r_skip ELSE it.skip
         IN  (Active(it) /\ it.alone /\ it.fixed /\ r_dcdfile = "open"
              /\ r_last'.op = "next" /\ r_last'.args = <<id>>)
                 => IF it.k * k < r_file.nsets
                    THEN r_last'.err = "ok" /\ r_last'.res.data = FrameData(it.k * k)
                    ELSE r_last'.err = "StopIteration"]_vars

\* C12: element n of an iteration is frame n*skip even when reader[j] calls
\* or another iteration of the same reader run between its steps; stated for
\* the stride skip = 1, unchanged during the iteration, on an open reader.
C12_IterationUndisturbed ==
    [][\A id \in DOMAIN r_iters :
         LET it == r_iters[id] IN
         (Active(it) /\ it.fixed /\ r_skip = 1 /\ r_dcdfile = "open"
          /\ r_last'.op = "next" /\ r_last'.args = <<id>> /\ r_last'.err = "ok")
             => r_last'.res.data = FrameData(it.k)]_vars

\* C13: reader[:] enumerates exactly nsets frames, frames 0, 1, ...,
\* nsets-1 in ascending order, with one seek and one decode per element, and
\* then terminates: step number k of its generator delivers frame k after
\* one seek and one decode while k < nsets, and ends the sequence without
\* reading when k = nsets.
C13_FullSlice ==
    [][\A id \in SliceIds :
         LET sl == r_slices[id] IN
         (sl.st \in {"fresh", "running"} /\ sl.args = <<NoneV, NoneV, NoneV>>
          /\ r_dcdfile = "open"
          /\ r_last'.op = "slicenext" /\ r_last'.args = <<id>>)
             => IF sl.k < r_file.nsets
                THEN /\ r_last' = Ret("slicenext", "ok", <<id>>, 1, 1,
                                      [frame |-> sl.k + 1, data |-> FrameData(sl.k)])
                     /\ r_ts' = r_last'.res
                     /\ r_slices'[id].st = "running"
                     /\ r_slices'[id].k = sl.k + 1
                ELSE /\ r_last' = Ret("slicenext", "StopIteration", <<id>>, 0, 0, NoTs)
                     /\ r_slices'[id].st = "done"
                     /\ sl.k = r_file.nsets]_vars

\* reader[:] on a file of at least two frames has delivered them all and ended
C13_Witness ==
    \E id \in SliceIds :
        /\ r_slices[id].st = "done"
        /\ r_slices[id].args = <<NoneV, NoneV, NoneV>>
        /\ r_slices[id].k = r_file.nsets
        /\ r_file.nsets >= 2
        /\ r_last = Ret("slicenext", "StopIteration", <<id>>, 0, 0, NoTs)

\* C14: reader[x] raises TypeError when x is neither an int nor a slice, and
\* when x is a slice one of whose bounds is neither an int nor None; the
\* indexing call itself raises it: no generator is made, nothing is sought
\* or decoded, the file position and the Frame buffer are untouched.
C14_TypeErrorAtCall ==
    [][/\ \A x \in IndexArgs :
            (~is_int(x) /\ R_Index(x)) =>
                /\ r_last' = Ret("getitem", "TypeError", <<>>, 0, 0, NoTs)
                /\ UNCHANGED <<r_cursor, r_ts, r_slices, r_stale>>
       /\ \A id \in SliceIds, start \in SliceStarts, stop \in SliceStops,
             step \in SliceSteps :
            ((\E b \in {start, stop, step} : b.ty \notin {"int", "NoneType"})
             /\ R_Slice(id, start, stop, step)) =>
                /\ r_last' = Ret("slice", "TypeError", <<>>, 0, 0, NoTs)
                /\ UNCHANGED <<r_cursor, r_ts, r_slices, r_stale>>]_vars

\* a slice with a bound that is not an integer has just been refused
C14_Witness ==
    /\ r_pc = "live"
    /\ r_last = Ret("slice", "TypeError", <<>>, 0, 0, NoTs)
    /\ \A id \in SliceIds : r_slices[id].st = "none"

\* C18: two generators of slices of one reader, advanced in any
\* interleaving with each other and with reader[j] calls, each deliver the
\* frames of their own index sequence in order: the step that yields element
\* k of a slice leaves frame start + k*step in the Frame buffer it returns,
\* moves that slice to element k+1 and leaves the other slice as it was; a
\* slice ends only when its own range is exhausted.
C18_SlicesIndependent ==
    [][\A id \in SliceIds :
         LET sl == r_slices[id]
             nx == r_slices'[id]
         IN  (sl.st \in {"fresh", "running"} /\ r_dcdfile = "open"
              /\ r_last'.op = "slicenext" /\ r_last'.args = <<id>>
              /\ r_last'.err \in {"ok", "StopIteration"})
                 => /\ \A o \in SliceIds \ {id} : r_slices'[o] = r_slices[o]
                    /\ nx.args = sl.args
                    /\ IF xrange_has(nx.start.v, nx.stop.v, nx.step.v, sl.k)
                       THEN /\ r_last'.err = "ok"
                            /\ r_last'.res.data =
                                   FrameData(nx.start.v + sl.k * nx.step.v)
                            /\ r_ts' = r_last'.res
                            /\ nx.k = sl.k + 1
                       ELSE r_last'.err = "StopIteration"]_vars

\* slice b has just yielded an element while slice a, which has yielded one
\* element, still has elements to yield, and the two are at different frames
C18_Witness ==
    LET a == r_slices["a"]
        b == r_slices["b"]
    IN  /\ a.st = "running" /\ a.k = 1
        /\ xrange_has(a.start.v, a.stop.v, a.step.v, a.k)
        /\ b.st = "running" /\ b.k >= 1
        /\ a.args # b.args
        /\ r_last.op = "slicenext" /\ r_last.args = <<"b">> /\ r_last.err = "ok"
        /\ r_last.res.data # FrameData(a.start.v)

\* C15: timeseries() rejects a bad request before any frame is decoded: an
\* empty atom selection fails, every format that is not one of the six
\* orders of a, f and c fails with the invalid-argument error, and each of
\* the six is accepted.
C15_TimeseriesRejects ==
    (r_last.op = "timeseries" /\ r_last.err # "IndexError" /\ r_dcdfile = "open")
        => LET natoms == r_last.args[1]
               format == r_last.args[5]
           IN  /\ natoms = 0 => (r_last.err = "NoDataError" /\ r_last.decodes = 0)
               /\ (natoms > 0 /\ format \notin TimeseriesFormats)
                      => (r_last.err = "ValueError: format" /\ r_last.decodes = 0)
               /\ (natoms > 0 /\ format \in TimeseriesFormats) => r_last.err = "ok"

\* C16: write_next_timestep() without a frame writes the timestep bound to
\* the writer (self.ts) and counts it; when none is bound it fails with
\* NoDataError, writes nothing and leaves frames_written unchanged.
C16_WriteBoundTimestep ==
    [][(w_pc = "live" /\ w_dcdfile = "open" /\ w_numatoms[1] >= 1
        /\ w_last'.op = "write" /\ w_last'.args = None)
          => IF w_ts = None
             THEN /\ w_last'.err = "NoDataError"
                  /\ w_log' = w_log
                  /\ w_frames_written' = w_frames_written
             ELSE /\ w_last'.err = "ok"
                  /\ w_log' = Append(w_log, <<"frame", w_ts[1]>>)
                  /\ w_frames_written' = w_frames_written + 1]_vars

\* C20: on an open writer, write_next_timestep(ts) with ts.numatoms equal
\* to the writer's numatoms writes exactly one frame and increments
\* frames_written by one, with convert_units True and with convert_units
\* False; the coordinates handed to the frame writer are always defined.
C20_WriteEitherUnits ==
    [][(w_pc = "live" /\ w_dcdfile = "open"
        /\ w_last'.op = "write" /\ w_last'.args # None
        /\ w_last'.args = w_numatoms)
          => /\ w_last'.err = "ok"
             /\ w_log' = Append(w_log, <<"frame", w_numatoms[1]>>)
             /\ w_frames_written' = w_frames_written + 1]_vars

\* C17: the dimensions getter returns canonical slot i = raw slot
\* [0,2,5,4,3,1][i], that is (A, B, C, alpha, beta, gamma) from the raw
\* layout [A, gamma, B, beta, alpha, C], and leaves the raw vector unchanged;
\* the setter is its exact inverse: setting dimensions = box and reading
\* them returns box, and setting the value just read leaves the raw vector
\* unchanged.
C17_CellTransform ==
    /\ c_pc = "rawread" =>
           /\ c_unitcell = c_box
           /\ c_dims = <<c_box[1], c_box[3], c_box[6], c_box[5], c_box[4], c_box[2]>>
    /\ c_pc = "setread" => (c_dims = c_box /\ dimensions(c_unitcell) = c_dims)
    /\ c_pc = "rawset" => c_unitcell = c_box

\* the value read from a raw vector that the permutation does not leave in
\* place has been set again
C17_Witness ==
    /\ c_pc = "rawset"
    /\ c_dims # c_box
    /\ c_box[2] # c_box[6]

\* C19: the file of a writer or reader that was opened is released exactly
\* once: __del__ runs the close path once if close() was never called and
\* nothing further if it was; a writer whose constructor failed before
\* opening the file and a reader that failed the zero-size test run no close
\* path at destruction, and destruction raises no error.
C19_ReleaseOnce ==
    [][/\ (w_pc # "deleted" /\ w_pc' = "deleted") =>
             /\ w_last'.op = "del" /\ w_last'.err = "ok"
             /\ w_stale' = w_stale
             /\ IF w_dcdfile = "open"
                THEN /\ w_dcdfile' = "None"
                     /\ w_log' = w_log \o << <<"finish", w_frames_written>>,
                                              <<"fclose", 0>> >>
                ELSE UNCHANGED <<w_dcdfile, w_log, w_hdr>>
       /\ (r_pc # "deleted" /\ r_pc' = "deleted") =>
             /\ r_last'.op = "del" /\ r_last'.err = "ok"
             /\ r_stale' = r_stale
             /\ IF r_dcdfile = "open"
                THEN r_dcdfile' = "None" /\ r_closes' = r_closes + 1
                ELSE UNCHANGED <<r_dcdfile, r_closes>>
       /\ LogCount("fclose")' <= 1
       /\ r_closes' <= 1
       /\ w_pc' = "deleted" =>
             LogCount("fclose")' = (IF w_dcdfile' = "unset" THEN 0 ELSE 1)
       /\ r_pc' = "deleted" =>
             r_closes' = (IF r_file.zero THEN 0 ELSE 1)]_vars

\* a writer that was never closed has been released by __del__, and a reader
\* that was closed by close() has been destroyed without a second release
C19_Witness ==
    /\ w_pc = "deleted" /\ w_last = [op |-> "del", err |-> "ok", args |-> <<"closed">>]
    /\ LogCount("fclose") = 1
    /\ r_pc = "deleted" /\ r_last = Ret("del", "ok", <<>>, 0, 0, NoTs)
    /\ r_closes = 1 /\ ~r_stale

\* C21: every frame that reaches the low-level frame writer has exactly
\* the writer's numatoms atoms, whether it was passed as the argument of
\* write_next_timestep or is the bound timestep (self.ts) used when the
\* argument is omitted.
C21_FramesHaveNumatoms ==
    (w_numatoms # None /\ w_numatoms[1] >= 1)
        => \A i \in 1..Len(w_log) :
               w_log[i][1] = "frame" => w_log[i][2] = w_numatoms[1]

====
